---- MODULE Spec2Model ----
(***************************************************************************)
(* Data-integrity validation of the cached derivative subaccount positions *)
(* (DerivativeSubaccountPositionIntegrityStrategy) and the spot market     *)
(* stream lifecycle (streamOrderbook .. cancelMarketStreams).              *)
(*                                                                         *)
(* An async function is one action per run-to-completion segment: the      *)
(* code from its call (or from the resumption of an await) up to the next  *)
(* await or its return.                                                    *)
(***************************************************************************)
EXTENDS Integers, Sequences, FiniteSets, TLC

VARIABLES
  isUserConnected,      \* sharedWalletStore.isUserConnected
  subaccountId,         \* accountStore.subaccountId ("" when unset)
  args,                 \* this.args of the strategy (marketIds, may be undefined)
  subaccountPositions,  \* positionStore.subaccountPositions (the cached snapshot)
  registry,             \* streamManager: stream kind -> registered handle
  streams,              \* every stream ever started, indexed by its handle
  pc,                   \* position of each validate() invocation
  marketIdsLocal,       \* const marketIds of each validate() invocation
  latestPositions,      \* const latestPositions of each validate() invocation
  fetchCount,           \* remote fetches issued by each validate() invocation
  effects,              \* store mutations performed by each validate() invocation
  compared,             \* the (existing, latest) pair each invocation verified
  activeMarketIds,      \* derivativeStore.activeMarketIds
  requests,             \* arguments of each fetchPositions call of each invocation
  fetched,              \* what the last fetchData() of each invocation resolved to
  walletStore,          \* state of the wallet store
  walletOp,             \* the wallet store action in flight, its position and locals
  testExisting,         \* verifyData harness: first argument
  testLatest,           \* verifyData harness: second argument
  testValid,            \* verifyData harness: result ("unset" before the call)
  grpcBalances,         \* what subaccountConsumer.fetchSubaccountBalances returns
  uiSubaccount,         \* fetchSubaccount: its position and the UiSubaccount it returns
  uiBalances,           \* grpcSubaccountBalanceToUiSubaccountBalance of each balance
  favoriteMarkets,      \* appStore.userState.favoriteMarkets
  lastToggle,           \* the last toggleFavoriteMarket: its argument, membership before
  walletValidate        \* wallet store validate(): its position, locals and outcome

vars == <<isUserConnected, subaccountId, args, subaccountPositions, registry,
          streams, pc, marketIdsLocal, latestPositions, fetchCount, effects,
          compared, activeMarketIds, requests, fetched, walletStore, walletOp,
          testExisting, testLatest, testValid, grpcBalances, uiSubaccount,
          uiBalances, favoriteMarkets, lastToggle, walletValidate>>

strategyVars == <<isUserConnected, subaccountId, args, subaccountPositions,
                  pc, marketIdsLocal, latestPositions, fetchCount, effects,
                  compared, activeMarketIds, requests, fetched>>

walletVars == <<walletStore, walletOp>>

testVars == <<testExisting, testLatest, testValid>>

balanceVars == <<grpcBalances, uiSubaccount, uiBalances>>

favoriteVars == <<favoriteMarkets, lastToggle>>

serviceVars == <<balanceVars, favoriteVars, walletValidate>>

-----------------------------------------------------------------------------
(* Bounds *)

MaxLen == 2       \* longest cached snapshot, longest verifyData argument
MaxFetched == 1   \* longest snapshot the indexer returns to validate()
MaxBalances == 1  \* balances in one fetchSubaccountBalances response
MaxHandles == 3   \* streams started in one run

Markets == {"A", "B"}
Times == {100, 200}
Subaccounts == {"", "sub1"}
Procs == {1}

-----------------------------------------------------------------------------
(* Values *)

Position == [marketId : Markets, updatedAt : Times]

RECURSIVE SeqsUpTo(_, _)
SeqsUpTo(S, n) ==
  IF n = 0 THEN {<<>>}
  ELSE LET shorter == SeqsUpTo(S, n - 1)
       IN  shorter \cup {Append(s, x) : s \in {t \in shorter : Len(t) = n - 1}, x \in S}

Snapshots(n) == SeqsUpTo(Position, n)

\* A JavaScript value that is either an array or undefined.
Undefined == [defined |-> FALSE, items |-> <<>>]
Array(s) == [defined |-> TRUE, items |-> s]

NoMarket == "undefined"
NoHandle == 0

SpotMarketStreamType == {"Orderbook", "Trades", "SubaccountTrades", "SubaccountOrders"}
SubaccountStreamType == {"Balances"}
PositionStreamType == "SubaccountPositions"
StreamKinds == SpotMarketStreamType \cup SubaccountStreamType \cup {PositionStreamType}

-----------------------------------------------------------------------------
(* verifyData: existingPositions.every(e => latestPositions.find(l => ...)) *)

\* Array.prototype.find with the arrow function of verifyData: the first
\* element with the same marketId and updatedAt, <<l>> when found and <<>>
\* (undefined) when not.
RECURSIVE find(_, _)
find(latest, existingPosition) ==
  IF latest = <<>> THEN <<>>
  ELSE IF /\ existingPosition.marketId = Head(latest).marketId
          /\ existingPosition.updatedAt = Head(latest).updatedAt
       THEN <<Head(latest)>>
       ELSE find(Tail(latest), existingPosition)

\* Array.prototype.every: stops at the first element whose callback result is falsy.
RECURSIVE every(_, _)
every(existing, latest) ==
  IF existing = <<>> THEN TRUE
  ELSE IF find(latest, Head(existing)) = <<>> THEN FALSE
       ELSE every(Tail(existing), latest)

verifyDataMarketOnly(existing, latest) ==
  \A i \in 1..Len(existing) : \E j \in 1..Len(latest) :
    existing[i].marketId = latest[j].marketId

verifyDataStrict(existing, latest) == existing = latest

verifyDataPositional(existing, latest) ==
  \A i \in 1..Len(existing) :
    /\ i <= Len(latest)
    /\ existing[i].marketId = latest[i].marketId
    /\ existing[i].updatedAt = latest[i].updatedAt

verifyData(existing, latest) == every(existing, latest)

-----------------------------------------------------------------------------
(* Stream manager and the stream services, as functions of the manager state *)

SM == [registry |-> registry, streams |-> streams]

\* The stream client opens a subscription and returns its handle.
start(sm, kind, marketId, subaccount) ==
  [sm EXCEPT !.streams = Append(@, [kind |-> kind, marketId |-> marketId,
                                    subaccountId |-> subaccount, live |-> TRUE])]

newHandle(sm) == Len(sm.streams) + 1

set(sm, handle, kind) == [sm EXCEPT !.registry[kind] = handle]

cancelIfExists(sm, kind) ==
  IF sm.registry[kind] = NoHandle THEN sm
  ELSE [sm EXCEPT !.streams[sm.registry[kind]].live = FALSE,
                  !.registry[kind] = NoHandle]

-----------------------------------------------------------------------------
(* Spot market stream services *)

streamOrderbookCancelFirst(sm, marketId) ==
  LET cancelled == cancelIfExists(sm, "Orderbook")
  IN  set(start(cancelled, "Orderbook", marketId, ""), newHandle(cancelled), "Orderbook")

streamOrderbook(sm, marketId) ==
  set(start(sm, "Orderbook", marketId, ""), newHandle(sm), "Orderbook")

streamTrades(sm, marketId) ==
  set(start(sm, "Trades", marketId, ""), newHandle(sm), "Trades")

streamSubaccountTrades(sm, marketId, subaccount) ==
  set(start(sm, "SubaccountTrades", marketId, subaccount), newHandle(sm),
      "SubaccountTrades")

streamSubaccountOrders(sm, marketId, subaccount) ==
  set(start(sm, "SubaccountOrders", marketId, subaccount), newHandle(sm),
      "SubaccountOrders")

cancelMarketStreamsSkipTrades(sm) ==
  cancelIfExists(
    cancelIfExists(
      cancelIfExists(
        cancelIfExists(sm, "Orderbook"),
        "SubaccountOrders"),
      "SubaccountTrades"),
    "Balances")

cancelMarketStreams(sm) ==
  cancelIfExists(
    cancelIfExists(
      cancelIfExists(
        cancelIfExists(
          cancelIfExists(sm, "Orderbook"),
          "SubaccountOrders"),
        "SubaccountTrades"),
      "Trades"),
    "Balances")

\* cancelAll(): cancels every registered handle.
cancelAll(sm) ==
  [registry |-> [kind \in StreamKinds |-> NoHandle],
   streams |-> [h \in 1..Len(sm.streams) |->
                  IF \E kind \in StreamKinds : sm.registry[kind] = h
                  THEN [sm.streams[h] EXCEPT !.live = FALSE]
                  ELSE sm.streams[h]]]

cancelAllStreamsMarketsOnly(sm) == cancelMarketStreams(sm)

\* useAppStore.cancelAllStreams
cancelAllStreams(sm) == cancelAll(sm)

\* Position store: its own subscription, kept in the same registry.
cancelSubaccountPositionsStream(sm) == cancelIfExists(sm, PositionStreamType)

streamSubaccountPositions(sm, marketId, subaccount) ==
  set(start(sm, PositionStreamType, marketId, subaccount), newHandle(sm),
      PositionStreamType)

Apply(sm) ==
  /\ registry' = sm.registry
  /\ streams' = sm.streams

StreamOrderbook ==
  /\ Len(streams) < MaxHandles
  /\ \E marketId \in Markets : Apply(streamOrderbook(SM, marketId))
  /\ UNCHANGED <<strategyVars, walletVars, testVars, serviceVars>>

StreamTrades ==
  /\ Len(streams) < MaxHandles
  /\ \E marketId \in Markets : Apply(streamTrades(SM, marketId))
  /\ UNCHANGED <<strategyVars, walletVars, testVars, serviceVars>>

StreamSubaccountTrades ==
  /\ Len(streams) < MaxHandles
  /\ \E marketId \in Markets, subaccount \in Subaccounts \ {""} :
       Apply(streamSubaccountTrades(SM, marketId, subaccount))
  /\ UNCHANGED <<strategyVars, walletVars, testVars, serviceVars>>

StreamSubaccountOrders ==
  /\ Len(streams) < MaxHandles
  /\ \E marketId \in Markets, subaccount \in Subaccounts \ {""} :
       Apply(streamSubaccountOrders(SM, marketId, subaccount))
  /\ UNCHANGED <<strategyVars, walletVars, testVars, serviceVars>>

CancelMarketStreams ==
  /\ Apply(cancelMarketStreams(SM))
  /\ UNCHANGED <<strategyVars, walletVars, testVars, serviceVars>>

CancelAllStreams ==
  /\ Apply(cancelAllStreams(SM))
  /\ UNCHANGED <<strategyVars, walletVars, testVars, serviceVars>>

-----------------------------------------------------------------------------
(* DerivativeSubaccountPositionIntegrityStrategy.validate *)

NotCompared == [done |-> FALSE, existing |-> <<>>, latest |-> <<>>]

Effect(op, marketId, data) == [op |-> op, marketId |-> marketId, data |-> data]

\* What indexerDerivativesApi.fetchPositions can resolve to.
FetchResults == {Undefined} \cup {Array(s) : s \in Snapshots(MaxFetched)}

ShouldSkipWalletOnly == ~isUserConnected

InFlight == {"fetch1", "fetched1", "fetch2", "fetched2", "hung"}

ShouldSkipEmptyCache ==
  \/ ~isUserConnected
  \/ subaccountId = ""
  \/ Len(subaccountPositions.items) = 0

ShouldSkip == ~isUserConnected \/ subaccountId = ""

NothingToCheckMissingOnly(latest) == ~latest.defined

NothingToCheck(latest) == ~latest.defined \/ Len(latest.items) = 0

\* The argument of indexerDerivativesApi.fetchPositions, read when fetchData()
\* is called: marketIds || derivativeStore.activeMarketIds.
fetchDataRequest ==
  [subaccountId |-> subaccountId,
   marketIds |-> IF args.defined THEN args.items ELSE activeMarketIds]

\* const [marketId] = marketIds || []
firstMarketId(marketIds) ==
  IF marketIds.defined /\ Len(marketIds.items) > 0
  THEN marketIds.items[1] ELSE NoMarket

\* validate() guarded by a per-kind in-progress flag.
ValidateCallExclusive(p) ==
  /\ \A q \in DOMAIN pc \ {p} : pc[q] \notin InFlight
  /\ pc[p] \in {"idle", "done", "failed"}
  /\ Len(streams) < MaxHandles
  /\ marketIdsLocal' = [marketIdsLocal EXCEPT ![p] = args]
  /\ latestPositions' = [latestPositions EXCEPT ![p] = Undefined]
  /\ effects' = [effects EXCEPT ![p] = <<>>]
  /\ compared' = [compared EXCEPT ![p] = NotCompared]
  /\ fetched' = [fetched EXCEPT ![p] = Undefined]
  /\ IF ShouldSkip
     THEN /\ pc' = [pc EXCEPT ![p] = "done"]
          /\ fetchCount' = [fetchCount EXCEPT ![p] = 0]
          /\ requests' = [requests EXCEPT ![p] = <<>>]
     ELSE /\ pc' = [pc EXCEPT ![p] = "fetch1"]
          /\ fetchCount' = [fetchCount EXCEPT ![p] = 1]
          /\ requests' = [requests EXCEPT ![p] = <<fetchDataRequest>>]
  /\ UNCHANGED <<isUserConnected, subaccountId, args, subaccountPositions,
                 activeMarketIds, registry, streams, walletVars, testVars, serviceVars>>

\* validate() from its call to the first await (lines 19-29).
ValidateCall(p) ==
  /\ pc[p] \in {"idle", "done", "failed"}
  /\ Len(streams) < MaxHandles
  /\ marketIdsLocal' = [marketIdsLocal EXCEPT ![p] = args]
  /\ latestPositions' = [latestPositions EXCEPT ![p] = Undefined]
  /\ effects' = [effects EXCEPT ![p] = <<>>]
  /\ compared' = [compared EXCEPT ![p] = NotCompared]
  /\ fetched' = [fetched EXCEPT ![p] = Undefined]
  /\ IF ShouldSkip
     THEN /\ pc' = [pc EXCEPT ![p] = "done"]
          /\ fetchCount' = [fetchCount EXCEPT ![p] = 0]
          /\ requests' = [requests EXCEPT ![p] = <<>>]
     ELSE /\ pc' = [pc EXCEPT ![p] = "fetch1"]
          /\ fetchCount' = [fetchCount EXCEPT ![p] = 1]
          /\ requests' = [requests EXCEPT ![p] = <<fetchDataRequest>>]
  /\ UNCHANGED <<isUserConnected, subaccountId, args, subaccountPositions,
                 activeMarketIds, registry, streams, walletVars, testVars, serviceVars>>

\* fetchPositions answers only while no other request is left unanswered.
FetchDataResolveSerial(p, results) ==
  /\ \A q \in DOMAIN pc \ {p} : pc[q] # "hung"
  /\ pc[p] \in {"fetch1", "fetch2"}
  /\ \E result \in results : fetched' = [fetched EXCEPT ![p] = result]
  /\ pc' = [pc EXCEPT ![p] = IF pc[p] = "fetch1" THEN "fetched1" ELSE "fetched2"]
  /\ UNCHANGED <<isUserConnected, subaccountId, args, subaccountPositions,
                 activeMarketIds, registry, streams, marketIdsLocal,
                 latestPositions, fetchCount, effects, compared, requests,
                 walletVars, testVars, serviceVars>>

FetchDataResolveCaching(p, results) ==
  /\ pc[p] \in {"fetch1", "fetch2"}
  /\ \E result \in results :
       /\ fetched' = [fetched EXCEPT ![p] = result]
       /\ subaccountPositions' = result
  /\ pc' = [pc EXCEPT ![p] = IF pc[p] = "fetch1" THEN "fetched1" ELSE "fetched2"]
  /\ UNCHANGED <<isUserConnected, subaccountId, args, activeMarketIds, registry,
                 streams, marketIdsLocal, latestPositions, fetchCount, effects,
                 compared, requests, walletVars, testVars, serviceVars>>

\* fetchData() from the resolution of fetchPositions to its return (lines
\* 69-75): the invocation's awaited promise resolves to one of results.
FetchDataResolve(p, results) ==
  /\ pc[p] \in {"fetch1", "fetch2"}
  /\ \E result \in results : fetched' = [fetched EXCEPT ![p] = result]
  /\ pc' = [pc EXCEPT ![p] = IF pc[p] = "fetch1" THEN "fetched1" ELSE "fetched2"]
  /\ UNCHANGED <<isUserConnected, subaccountId, args, subaccountPositions,
                 activeMarketIds, registry, streams, marketIdsLocal,
                 latestPositions, fetchCount, effects, compared, requests,
                 walletVars, testVars, serviceVars>>

\* validate() from the resolution of the first fetchData() to the second
\* await or the return (lines 29-43).
ValidateVerify(p) ==
  /\ pc[p] = "fetched1"
  /\ LET result == fetched[p]
     IN
       /\ latestPositions' = [latestPositions EXCEPT ![p] = result]
       /\ IF NothingToCheck(result)
          THEN /\ pc' = [pc EXCEPT ![p] = "done"]
               /\ UNCHANGED <<registry, streams, fetchCount, effects, compared,
                              requests>>
          ELSE IF ~subaccountPositions.defined
          THEN \* [...undefined] throws a TypeError
               /\ pc' = [pc EXCEPT ![p] = "failed"]
               /\ UNCHANGED <<registry, streams, fetchCount, effects, compared,
                              requests>>
          ELSE /\ compared' = [compared EXCEPT ![p] =
                      [done |-> TRUE, existing |-> subaccountPositions.items,
                       latest |-> result.items]]
               /\ IF verifyData(subaccountPositions.items, result.items)
                  THEN /\ pc' = [pc EXCEPT ![p] = "done"]
                       /\ UNCHANGED <<registry, streams, fetchCount, effects,
                                      requests>>
                  ELSE /\ Apply(cancelSubaccountPositionsStream(SM))
                       /\ effects' = [effects EXCEPT ![p] =
                              Append(@, Effect("cancel", NoMarket, Undefined))]
                       /\ fetchCount' = [fetchCount EXCEPT ![p] = @ + 1]
                       /\ requests' = [requests EXCEPT ![p] =
                              Append(@, fetchDataRequest)]
                       /\ pc' = [pc EXCEPT ![p] = "fetch2"]
  /\ UNCHANGED <<isUserConnected, subaccountId, args, subaccountPositions,
                 activeMarketIds, marketIdsLocal, fetched, walletVars, testVars, serviceVars>>

\* validate() from the resolution of the second fetchData() to the return
\* (lines 43-47).
ValidateResync(p) ==
  /\ pc[p] = "fetched2"
  /\ LET result == fetched[p]
         marketId == firstMarketId(marketIdsLocal[p])
     IN  /\ subaccountPositions' = result
         /\ Apply(streamSubaccountPositions(SM, marketId, subaccountId))
         /\ effects' = [effects EXCEPT ![p] =
                @ \o <<Effect("replace", NoMarket, result),
                       Effect("open", marketId, Undefined)>>]
  /\ pc' = [pc EXCEPT ![p] = "done"]
  /\ UNCHANGED <<isUserConnected, subaccountId, args, activeMarketIds,
                 marketIdsLocal, latestPositions, fetchCount, compared,
                 requests, fetched, walletVars, testVars, serviceVars>>

FetchFailsRetry(p) ==
  /\ pc[p] \in {"fetch1", "fetch2"}
  /\ fetchCount' = [fetchCount EXCEPT ![p] = @ + 1]
  /\ requests' = [requests EXCEPT ![p] = Append(@, fetchDataRequest)]
  /\ UNCHANGED <<isUserConnected, subaccountId, args, subaccountPositions,
                 activeMarketIds, registry, streams, pc, marketIdsLocal,
                 latestPositions, effects, compared, fetched, walletVars,
                 testVars, serviceVars>>

\* The awaited fetchData() rejects: validate() has no try/catch, so it rejects too.
FetchFails(p) ==
  /\ pc[p] \in {"fetch1", "fetch2"}
  /\ pc' = [pc EXCEPT ![p] = "failed"]
  /\ UNCHANGED <<isUserConnected, subaccountId, args, subaccountPositions,
                 activeMarketIds, registry, streams, marketIdsLocal,
                 latestPositions, fetchCount, effects, compared, requests,
                 fetched, walletVars, testVars, serviceVars>>

\* fetchPositions never answers: no timeout is applied, the invocation stays
\* suspended at its await for ever.
FetchHangs(p) ==
  /\ pc[p] \in {"fetch1", "fetch2"}
  /\ pc' = [pc EXCEPT ![p] = "hung"]
  /\ UNCHANGED <<isUserConnected, subaccountId, args, subaccountPositions,
                 activeMarketIds, registry, streams, marketIdsLocal,
                 latestPositions, fetchCount, effects, compared, requests,
                 fetched, walletVars, testVars, serviceVars>>

-----------------------------------------------------------------------------
(* verifyData applied to arbitrary arguments *)

VerifyData ==
  /\ testValid = "unset"
  /\ testValid' = IF verifyData(testExisting, testLatest) THEN "true" ELSE "false"
  /\ UNCHANGED <<strategyVars, registry, streams, walletVars, testExisting,
                 testLatest, serviceVars>>

-----------------------------------------------------------------------------
(* fetchSubaccount and grpcSubaccountBalanceToUiSubaccountBalance *)

Denoms == {"inj", "peggy0xusdt"}
Amounts == {"0", "2", "10"}

NoDeposit == [defined |-> FALSE, totalBalance |-> "", availableBalance |-> ""]

Deposits ==
  {[defined |-> TRUE, totalBalance |-> total, availableBalance |-> available] :
     total \in Amounts, available \in Amounts}

SubaccountBalance == [denom : Denoms, deposit : {NoDeposit} \cup Deposits]

\* SubaccountTransformer.grpcBalancesToBalances: the fields are carried over.
grpcBalancesToBalances(balances) ==
  [i \in 1..Len(balances) |->
     [denom |-> balances[i].denom, deposit |-> balances[i].deposit]]

grpcSubaccountBalanceToUiSubaccountBalance(balance) ==
  [denom |-> balance.denom,
   totalBalance |->
     IF balance.deposit.defined THEN balance.deposit.totalBalance ELSE "0",
   availableBalance |->
     IF balance.deposit.defined THEN balance.deposit.availableBalance ELSE "0"]

\* The object fetchSubaccount's map callback returns for one balance (the
\* token field, made by a transformer of another module, is left out).
fetchSubaccountBalance(balance) ==
  [denom |-> balance.denom,
   totalBalance |->
     IF balance.deposit.defined THEN balance.deposit.availableBalance ELSE "0",
   availableBalance |->
     IF balance.deposit.defined THEN balance.deposit.totalBalance ELSE "0"]

\* fetchSubaccount(subaccountId) up to its await.
FetchSubaccountCall(subaccount) ==
  /\ uiSubaccount.pc \in {"idle", "done", "failed"}
  /\ uiSubaccount' = [pc |-> "fetching", subaccountId |-> subaccount,
                      balances |-> <<>>]
  /\ UNCHANGED <<strategyVars, registry, streams, walletVars, testVars,
                 grpcBalances, uiBalances, favoriteVars, walletValidate>>

\* fetchSubaccountBalances resolves: every balance is mapped and the
\* UiSubaccount returned.
FetchSubaccountResolve ==
  /\ uiSubaccount.pc = "fetching"
  /\ LET balances == grpcBalancesToBalances(grpcBalances)
     IN uiSubaccount' =
          [uiSubaccount EXCEPT
             !.pc = "done",
             !.balances = [i \in 1..Len(balances) |->
                             fetchSubaccountBalance(balances[i])]]
  /\ UNCHANGED <<strategyVars, registry, streams, walletVars, testVars,
                 grpcBalances, uiBalances, favoriteVars, walletValidate>>

\* fetchSubaccountBalances rejects, and fetchSubaccount with it.
FetchSubaccountFails ==
  /\ uiSubaccount.pc = "fetching"
  /\ uiSubaccount' = [uiSubaccount EXCEPT !.pc = "failed"]
  /\ UNCHANGED <<strategyVars, registry, streams, walletVars, testVars,
                 grpcBalances, uiBalances, favoriteVars, walletValidate>>

\* grpcSubaccountBalanceToUiSubaccountBalance applied to the same balances.
GrpcSubaccountBalanceToUiSubaccountBalance ==
  /\ ~uiBalances.defined
  /\ uiBalances' =
       [defined |-> TRUE,
        balances |-> [i \in 1..Len(grpcBalances) |->
           grpcSubaccountBalanceToUiSubaccountBalance(grpcBalances[i])]]
  /\ UNCHANGED <<strategyVars, registry, streams, walletVars, testVars,
                 grpcBalances, uiSubaccount, favoriteVars, walletValidate>>

-----------------------------------------------------------------------------
(* useAppStore.toggleFavoriteMarket *)

FavoriteCandidates == {"A", "B", "C", "D"}

includes(list, marketId) == \E i \in 1..Len(list) : list[i] = marketId

filter(list, marketId) ==
  LET keep(m) == m # marketId IN SelectSeq(list, keep)

\* A market that is not a favorite yet is added after the others.
toggleFavoriteMarketAppend(cachedFavoriteMarkets, marketId) ==
  IF includes(cachedFavoriteMarkets, marketId)
  THEN filter(cachedFavoriteMarkets, marketId)
  ELSE cachedFavoriteMarkets \o <<marketId>>

toggleFavoriteMarket(cachedFavoriteMarkets, marketId) ==
  IF includes(cachedFavoriteMarkets, marketId)
  THEN filter(cachedFavoriteMarkets, marketId)
  ELSE <<marketId>> \o cachedFavoriteMarkets

ToggleFavoriteMarket(marketId) ==
  /\ favoriteMarkets' = toggleFavoriteMarket(favoriteMarkets, marketId)
  /\ lastToggle' = [marketId |-> marketId,
                    wasMember |-> includes(favoriteMarkets, marketId)]
  /\ UNCHANGED <<strategyVars, registry, streams, walletVars, testVars,
                 balanceVars, walletValidate>>

-----------------------------------------------------------------------------
(* Initial states and specifications *)

ArgsChoices == {Undefined, Array(<<>>), Array(<<"A">>), Array(<<"B", "A">>)}

NoStreams ==
  /\ registry = [kind \in StreamKinds |-> NoHandle]
  /\ streams = <<>>

\* The position store has already opened its subscription.
PositionsStreamOpen ==
  /\ registry = [kind \in StreamKinds |->
                   IF kind = PositionStreamType THEN 1 ELSE NoHandle]
  /\ streams = <<[kind |-> PositionStreamType, marketId |-> firstMarketId(args),
                  subaccountId |-> subaccountId, live |-> TRUE]>>

NoInvocation ==
  /\ pc = [p \in Procs |-> "idle"]
  /\ marketIdsLocal = [p \in Procs |-> Undefined]
  /\ latestPositions = [p \in Procs |-> Undefined]
  /\ fetchCount = [p \in Procs |-> 0]
  /\ effects = [p \in Procs |-> <<>>]
  /\ compared = [p \in Procs |-> NotCompared]
  /\ requests = [p \in Procs |-> <<>>]
  /\ fetched = [p \in Procs |-> Undefined]

\* initialStateFactory() of the wallet store; no wallet store action in flight.
GranteeDirection == "grantee"
GranterDirection == "granter"

NoAuthZ ==
  [address |-> "", direction |-> GranteeDirection, injectiveAddress |-> "",
   defaultSubaccountId |-> ""]

NoAutoSign ==
  [defined |-> FALSE, privateKey |-> "", injectiveAddress |-> "", expiration |-> 0]

initialStateFactory ==
  [address |-> "",
   addresses |-> <<>>,
   injectiveAddress |-> "",
   defaultSubaccountId |-> "",
   addressConfirmation |-> "",
   wallet |-> "metamask",
   metamaskInstalled |-> FALSE,
   trustWalletInstalled |-> FALSE,
   okxWalletInstalled |-> FALSE,
   phantomInstalled |-> FALSE,
   bitGetInstalled |-> FALSE,
   walletConnectStatus |-> "idle",
   authZ |-> NoAuthZ,
   autoSign |-> NoAutoSign]

NoWalletOp ==
  [name |-> "none", pc |-> "idle", addresses |-> <<>>, address |-> "",
   addressConfirmation |-> ""]

WalletIdle ==
  /\ walletStore = initialStateFactory
  /\ walletOp = NoWalletOp

ActiveMarketIdsChoices == {<<"A">>, <<"A", "B">>}

NoTest ==
  /\ testExisting = <<>>
  /\ testLatest = <<>>
  /\ testValid = "unset"

\* No fetchSubaccount, no favorite market and no wallet validate() yet.
NoSubaccount == [pc |-> "idle", subaccountId |-> "", balances |-> <<>>]

NoUiBalances == [defined |-> FALSE, balances |-> <<>>]

NoBalances ==
  /\ grpcBalances = <<>>
  /\ uiSubaccount = NoSubaccount
  /\ uiBalances = NoUiBalances

NoToggle == [marketId |-> NoMarket, wasMember |-> FALSE]

NoFavorites ==
  /\ favoriteMarkets = <<>>
  /\ lastToggle = NoToggle

NoWalletValidate ==
  [pc |-> "idle", isAutoSignEnabled |-> FALSE, authzFromEthWallet |-> FALSE,
   validations |-> <<>>, error |-> "none"]

NoServices ==
  /\ NoBalances
  /\ NoFavorites
  /\ walletValidate = NoWalletValidate

-----------------------------------------------------------------------------
(* useWalletStore: connect flows, onConnect, reset, disconnect, authZ *)

EthereumAddresses == {"0xa", "0xb"}
InjectiveAddresses == {"inja", "injb"}

\* The sdk conversions between the two address forms and to the default
\* subaccount of an address.
getInjectiveAddress(address) == IF address = "0xa" THEN "inja" ELSE "injb"
getEthereumAddress(injectiveAddress) ==
  IF injectiveAddress = "inja" THEN "0xa" ELSE "0xb"
getDefaultSubaccountId(injectiveAddress) ==
  IF injectiveAddress = "inja" THEN "sub1" ELSE "sub2"

HardwareMethods == {"connectLedger", "connectLedgerLegacy", "connectTrezor"}
EthMethods ==
  {"connectMetamask", "connectTrustWallet", "connectOkxWallet",
   "connectBitGet", "connectPhantom", "connectWalletConnect", "connectTorus"}
CosmosMethods ==
  {"connectKeplr", "connectLeap", "connectNinji", "connectCosmostation"}
AddressMethods == {"connectAddress"}
ConnectMethods ==
  HardwareMethods \cup EthMethods \cup CosmosMethods \cup AddressMethods

\* The Wallet each flow hands to connectWallet; the hardware flows pass the
\* wallet already in the store.
WalletOf(method, current) ==
  CASE method \in HardwareMethods -> current
    [] method = "connectMetamask" -> "metamask"
    [] method = "connectTrustWallet" -> "trust-wallet"
    [] method = "connectOkxWallet" -> "okx-wallet"
    [] method = "connectBitGet" -> "bitget"
    [] method = "connectPhantom" -> "phantom"
    [] method = "connectWalletConnect" -> "wallet-connect"
    [] method = "connectTorus" -> "torus"
    [] method = "connectKeplr" -> "keplr"
    [] method = "connectLeap" -> "leap"
    [] method = "connectNinji" -> "ninji"
    [] method = "connectCosmostation" -> "cosmostation"
    [] method = "connectAddress" -> "metamask"

\* The address argument of a flow that takes one.
AddressArgs(method) ==
  CASE method \in HardwareMethods -> EthereumAddresses
    [] method \in AddressMethods -> InjectiveAddresses
    [] OTHER -> {""}

\* What getAddresses() and confirm() can resolve to.
AddressLists(method) ==
  IF method \in CosmosMethods
  THEN {<<"inja">>, <<"injb", "inja">>}
  ELSE {<<"0xa">>, <<"0xb", "0xa">>}

ConfirmResults == {"confirmed"}

isUserWalletConnected(state) ==
  /\ Len(state.addresses) > 0
  /\ state.address # ""
  /\ state.addressConfirmation # ""
  /\ state.injectiveAddress # ""

isAuthzWalletConnected(state) ==
  /\ isUserWalletConnected(state)
  /\ state.authZ.address # ""
  /\ state.authZ.injectiveAddress # ""

\* sharedWalletStore.isUserConnected follows the wallet store's own getter.
sharedIsUserConnected(state) == isUserWalletConnected(state)

\* The $patch of connectWallet.
connectWallet(state, wallet) ==
  [state EXCEPT !.wallet = wallet, !.walletConnectStatus = "connecting"]

\* The $patch each connect flow makes once the address is confirmed.
patchAddress(state, method, op) ==
  LET injectiveAddress ==
        IF method \in CosmosMethods \cup AddressMethods
        THEN op.address ELSE getInjectiveAddress(op.address)
      address ==
        IF method \in CosmosMethods \cup AddressMethods
        THEN getEthereumAddress(op.address) ELSE op.address
      addresses ==
        IF method \in HardwareMethods \cup AddressMethods
        THEN <<address>> ELSE op.addresses
  IN [state EXCEPT !.address = address,
                   !.addresses = addresses,
                   !.injectiveAddress = injectiveAddress,
                   !.addressConfirmation = op.addressConfirmation,
                   !.defaultSubaccountId =
                     getDefaultSubaccountId(injectiveAddress)]

\* reset() without the resetAutoSign() call.
resetKeepAutoSign(state) ==
  [state EXCEPT !.authZ = initialStateFactory.authZ,
                !.address = initialStateFactory.address,
                !.addresses = initialStateFactory.addresses,
                !.injectiveAddress = initialStateFactory.injectiveAddress,
                !.defaultSubaccountId = initialStateFactory.defaultSubaccountId,
                !.addressConfirmation = initialStateFactory.addressConfirmation]

\* reset(): resetAutoSign, then the $patch of six fields.
reset(state) ==
  [state EXCEPT !.autoSign = NoAutoSign,
                !.authZ = initialStateFactory.authZ,
                !.address = initialStateFactory.address,
                !.addresses = initialStateFactory.addresses,
                !.injectiveAddress = initialStateFactory.injectiveAddress,
                !.defaultSubaccountId = initialStateFactory.defaultSubaccountId,
                !.addressConfirmation = initialStateFactory.addressConfirmation]

\* accountStore.$reset() and positionStore.$reset().
accountStoreInitialSubaccountId == ""
positionStoreInitialPositions == Array(<<>>)

\* The state connectMetamask() leaves for the first ethereum address.
ConnectedStore ==
  [patchAddress(initialStateFactory, "connectMetamask",
                [NoWalletOp EXCEPT !.addresses = <<"0xa">>,
                                   !.address = "0xa",
                                   !.addressConfirmation = "confirmed"])
     EXCEPT !.walletConnectStatus = "connected"]

sessionVars ==
  <<args, activeMarketIds, registry, streams, pc, marketIdsLocal,
    latestPositions, fetchCount, effects, compared, requests, fetched>>

\* connect*(): up to the await inside connectWallet.
ConnectCall(method, address) ==
  /\ walletOp.pc = "idle"
  /\ walletStore' = connectWallet(walletStore, WalletOf(method, walletStore.wallet))
  /\ walletOp' = [NoWalletOp EXCEPT !.name = method, !.pc = "connect",
                                     !.address = address]
  /\ UNCHANGED <<isUserConnected, subaccountId, subaccountPositions,
                 sessionVars, testVars, serviceVars>>

\* connect({ wallet }) resolves: the flow goes on to its next await.
ConnectResolve ==
  /\ walletOp.pc = "connect"
  /\ walletOp' = [walletOp EXCEPT !.pc =
        IF walletOp.name \in HardwareMethods \cup AddressMethods
        THEN "confirm" ELSE "getAddresses"]
  /\ UNCHANGED <<isUserConnected, subaccountId, subaccountPositions,
                 walletStore, sessionVars, testVars, serviceVars>>

\* getAddresses() resolves; the first address is the one to confirm.
GetAddressesResolve ==
  /\ walletOp.pc = "getAddresses"
  /\ \E addresses \in AddressLists(walletOp.name) :
       walletOp' = [walletOp EXCEPT !.pc = "confirm",
                                    !.addresses = addresses,
                                    !.address = addresses[1]]
  /\ UNCHANGED <<isUserConnected, subaccountId, subaccountPositions,
                 walletStore, sessionVars, testVars, serviceVars>>

\* The $patch of the address fields followed by onConnect().
ConnectFinish(op) ==
  LET patched == patchAddress(walletStore, op.name, op)
  IN /\ walletStore' = [patched EXCEPT !.walletConnectStatus = "connected"]
     /\ subaccountId' = patched.defaultSubaccountId
     /\ isUserConnected' = sharedIsUserConnected(patched)
     /\ walletOp' = NoWalletOp
     /\ UNCHANGED <<subaccountPositions, sessionVars, testVars, serviceVars>>

\* confirm(address) resolves.
ConfirmResolve ==
  /\ walletOp.pc = "confirm"
  /\ \E addressConfirmation \in ConfirmResults :
       LET op == [walletOp EXCEPT !.addressConfirmation = addressConfirmation]
       IN IF walletOp.name = "connectKeplr"
          THEN /\ walletOp' = [op EXCEPT !.pc = "confirmKeplr"]
               /\ UNCHANGED <<isUserConnected, subaccountId,
                              subaccountPositions, walletStore, sessionVars,
                              testVars, serviceVars>>
          ELSE ConnectFinish(op)

\* confirmCorrectKeplrAddress(injectiveAddress) resolves.
ConfirmKeplrResolve ==
  /\ walletOp.pc = "confirmKeplr"
  /\ ConnectFinish(walletOp)

\* The awaited call of the action in flight rejects: the action rejects and
\* nothing after the await runs.
WalletOpFails ==
  /\ walletOp.pc # "idle"
  /\ walletOp' = NoWalletOp
  /\ UNCHANGED <<isUserConnected, subaccountId, subaccountPositions,
                 walletStore, sessionVars, testVars, serviceVars>>

OnConnect ==
  /\ subaccountId' = walletStore.defaultSubaccountId
  /\ walletStore' = [walletStore EXCEPT !.walletConnectStatus = "connected"]
  /\ UNCHANGED <<isUserConnected, subaccountPositions, walletOp, sessionVars,
                 testVars, serviceVars>>

Reset ==
  /\ walletStore' = reset(walletStore)
  /\ isUserConnected' = sharedIsUserConnected(walletStore')
  /\ UNCHANGED <<subaccountId, subaccountPositions, walletOp, sessionVars,
                 testVars, serviceVars>>

\* disconnect(): up to await walletStrategy.disconnect().
DisconnectCall ==
  /\ walletOp.pc = "idle"
  /\ walletOp' = [NoWalletOp EXCEPT !.name = "disconnect", !.pc = "disconnect"]
  /\ UNCHANGED <<isUserConnected, subaccountId, subaccountPositions,
                 walletStore, sessionVars, testVars, serviceVars>>

\* disconnect(): the resets after walletStrategy.disconnect() resolved.
DisconnectResolve ==
  /\ walletOp.pc = "disconnect"
  /\ walletStore' = reset(walletStore)
  /\ isUserConnected' = sharedIsUserConnected(walletStore')
  /\ subaccountId' = accountStoreInitialSubaccountId
  /\ subaccountPositions' = positionStoreInitialPositions
  /\ walletOp' = NoWalletOp
  /\ UNCHANGED <<sessionVars, testVars, serviceVars>>

ConnectAuthZ(injectiveAddress, direction) ==
  /\ walletStore' = [walletStore EXCEPT !.authZ =
       [direction |-> direction,
        injectiveAddress |-> injectiveAddress,
        address |-> getEthereumAddress(injectiveAddress),
        defaultSubaccountId |-> getDefaultSubaccountId(injectiveAddress)]]
  /\ subaccountId' = getDefaultSubaccountId(injectiveAddress)
  /\ UNCHANGED <<isUserConnected, subaccountPositions, walletOp, sessionVars,
                 testVars, serviceVars>>

ResetAuthZ ==
  /\ walletStore' = [walletStore EXCEPT !.authZ = NoAuthZ]
  /\ subaccountId' = walletStore.defaultSubaccountId
  /\ UNCHANGED <<isUserConnected, subaccountPositions, walletOp, sessionVars,
                 testVars, serviceVars>>

-----------------------------------------------------------------------------
(* useWalletStore.validate *)

\* isEthWallet and isCosmosWallet of wallet-ts.
EthWallets ==
  {"metamask", "trust-wallet", "okx-wallet", "bitget", "phantom",
   "wallet-connect", "torus", "ledger", "ledger-legacy", "trezor"}
CosmosWallets == {"keplr", "leap", "ninji", "cosmostation"}

isEthWallet(wallet) == wallet \in EthWallets
isCosmosWallet(wallet) == wallet \in CosmosWallets

\* What a rejected validateMetamask / validateTrustWallet /
\* validateCosmosWallet can reject with.
ValidatorErrors == {"GeneralException", "Web3Exception"}

ValidateAwaits ==
  {"validateMetamask", "validateTrustWallet", "validateCosmosWallet"}

awaitValidator(v, validator) ==
  [v EXCEPT !.pc = validator, !.validations = Append(@, validator)]

\* validate() from its last if to its return (lines 617-624).
cosmosStep(state, v) ==
  IF isCosmosWallet(state.wallet) /\ ~v.isAutoSignEnabled
  THEN awaitValidator(v, "validateCosmosWallet")
  ELSE [v EXCEPT !.pc = "resolved"]

\* The AuthZ check applied to the hardware wallets only.
authzStepHardwareOnly(state, v) ==
  IF /\ state.wallet \in {"ledger", "ledger-legacy", "trezor"}
     /\ isAuthzWalletConnected(state)
     /\ ~v.isAutoSignEnabled
  THEN [v EXCEPT !.pc = "rejected", !.error = "GeneralException"]
  ELSE cosmosStep(state, v)

\* validate() from the AuthZ check on (lines 605-615).
authzStep(state, v) ==
  IF /\ isEthWallet(state.wallet)
     /\ isAuthzWalletConnected(state)
     /\ ~v.isAutoSignEnabled
  THEN [v EXCEPT !.pc = "rejected", !.error = "GeneralException"]
  ELSE cosmosStep(state, v)

\* validate() from the TrustWallet if on (lines 601-603).
trustWalletStep(state, v) ==
  IF state.wallet = "trust-wallet" /\ ~v.isAutoSignEnabled
  THEN awaitValidator(v, "validateTrustWallet")
  ELSE authzStep(state, v)

\* validate() from the Metamask if on (lines 597-599).
metamaskStep(state, v) ==
  IF state.wallet = "metamask" /\ ~v.isAutoSignEnabled
  THEN awaitValidator(v, "validateMetamask")
  ELSE trustWalletStep(state, v)

\* validate() from its call to its first await, throw or return.
WalletValidateCall ==
  /\ walletValidate.pc \in {"idle", "resolved", "rejected"}
  /\ walletValidate' =
       metamaskStep(walletStore,
         [NoWalletValidate EXCEPT
            !.isAutoSignEnabled = walletStore.autoSign.defined,
            !.authzFromEthWallet =
               /\ isEthWallet(walletStore.wallet)
               /\ isAuthzWalletConnected(walletStore)
               /\ ~walletStore.autoSign.defined])
  /\ UNCHANGED <<strategyVars, registry, streams, walletVars, testVars,
                 balanceVars, favoriteVars>>

\* The awaited validator resolves: validate() goes on with the store as it
\* is now.
WalletValidateResolve ==
  /\ walletValidate.pc \in ValidateAwaits
  /\ walletValidate' =
       CASE walletValidate.pc = "validateMetamask" ->
              trustWalletStep(walletStore, walletValidate)
         [] walletValidate.pc = "validateTrustWallet" ->
              authzStep(walletStore, walletValidate)
         [] walletValidate.pc = "validateCosmosWallet" ->
              [walletValidate EXCEPT !.pc = "resolved"]
  /\ UNCHANGED <<strategyVars, registry, streams, walletVars, testVars,
                 balanceVars, favoriteVars>>

\* The awaited validator rejects, and validate() with it.
WalletValidateFails ==
  /\ walletValidate.pc \in ValidateAwaits
  /\ \E error \in ValidatorErrors :
       walletValidate' = [walletValidate EXCEPT !.pc = "rejected",
                                                !.error = error]
  /\ UNCHANGED <<strategyVars, registry, streams, walletVars, testVars,
                 balanceVars, favoriteVars>>

-----------------------------------------------------------------------------

Init ==
  /\ isUserConnected \in BOOLEAN
  /\ subaccountId \in Subaccounts
  /\ args \in ArgsChoices
  /\ subaccountPositions \in {Array(s) : s \in Snapshots(MaxLen)}
  /\ activeMarketIds \in ActiveMarketIdsChoices
  /\ NoStreams \/ PositionsStreamOpen
  /\ NoInvocation
  /\ WalletIdle
  /\ NoTest
  /\ NoServices

Next ==
  \E p \in Procs :
    \/ ValidateCall(p)
    \/ FetchDataResolve(p, FetchResults)
    \/ ValidateVerify(p)
    \/ ValidateResync(p)
    \/ FetchFails(p)

Spec == Init /\ [][Next]_vars

InitStreams ==
  /\ isUserConnected = TRUE
  /\ subaccountId = "sub1"
  /\ args = Undefined
  /\ subaccountPositions = Array(<<>>)
  /\ activeMarketIds = <<"A", "B">>
  /\ NoStreams \/ PositionsStreamOpen
  /\ NoInvocation
  /\ WalletIdle
  /\ NoTest
  /\ NoServices

NextStreams ==
  \/ StreamOrderbook
  \/ StreamTrades
  \/ StreamSubaccountTrades
  \/ StreamSubaccountOrders
  \/ CancelMarketStreams
  \/ CancelAllStreams

SpecStreams == InitStreams /\ [][NextStreams]_vars

\* Two validate() invocations of the same strategy, started independently.
RaceProcs == {1, 2}

RaceResults ==
  {Array(<<[marketId |-> "A", updatedAt |-> 100]>>),
   Array(<<[marketId |-> "A", updatedAt |-> 200]>>)}

InitRace ==
  /\ isUserConnected = TRUE
  /\ subaccountId = "sub1"
  /\ args = Array(<<"A">>)
  /\ subaccountPositions = Array(<<[marketId |-> "A", updatedAt |-> 100]>>)
  /\ activeMarketIds = <<"A", "B">>
  /\ PositionsStreamOpen
  /\ pc = [p \in RaceProcs |-> "idle"]
  /\ marketIdsLocal = [p \in RaceProcs |-> Undefined]
  /\ latestPositions = [p \in RaceProcs |-> Undefined]
  /\ fetchCount = [p \in RaceProcs |-> 0]
  /\ effects = [p \in RaceProcs |-> <<>>]
  /\ compared = [p \in RaceProcs |-> NotCompared]
  /\ requests = [p \in RaceProcs |-> <<>>]
  /\ fetched = [p \in RaceProcs |-> Undefined]
  /\ WalletIdle
  /\ NoTest
  /\ NoServices

NextRace ==
  \E p \in RaceProcs :
    \/ ValidateCall(p)
    \/ FetchDataResolve(p, RaceResults)
    \/ ValidateVerify(p)
    \/ ValidateResync(p)
    \/ FetchFails(p)
    \/ FetchHangs(p)

SpecRace == InitRace /\ [][NextRace]_vars

\* The event loop runs every continuation that is ready, and the indexer
\* answers every request it does not leave hanging.
FairRace ==
  \A p \in RaceProcs :
    /\ WF_vars(FetchDataResolve(p, RaceResults))
    /\ WF_vars(ValidateVerify(p))
    /\ WF_vars(ValidateResync(p))

SpecRaceFair == SpecRace /\ FairRace

\* A session starts either before any wallet was connected or with a wallet
\* connected and the positions of its subaccount loaded and streamed.
FreshSession ==
  /\ isUserConnected = FALSE
  /\ subaccountId = ""
  /\ subaccountPositions = Array(<<>>)
  /\ NoStreams
  /\ WalletIdle

ConnectedSession ==
  /\ isUserConnected = TRUE
  /\ subaccountId = "sub1"
  /\ subaccountPositions = Array(<<[marketId |-> "A", updatedAt |-> 100]>>)
  /\ PositionsStreamOpen
  /\ walletStore = ConnectedStore
  /\ walletOp = NoWalletOp

\* One validate() at a time in a connected session, while the wallet is
\* disconnected, connected again, or switched to another subaccount.
InitSession ==
  /\ args = Array(<<"A">>)
  /\ activeMarketIds = <<"A", "B">>
  /\ ConnectedSession
  /\ NoInvocation
  /\ NoTest
  /\ NoServices

NextSession ==
  \/ \E p \in Procs :
       \/ ValidateCall(p)
       \/ FetchDataResolve(p, RaceResults)
       \/ ValidateVerify(p)
       \/ ValidateResync(p)
       \/ FetchFails(p)
  \/ ConnectCall("connectMetamask", "")
  \/ ConnectResolve
  \/ GetAddressesResolve
  \/ ConfirmResolve
  \/ WalletOpFails
  \/ DisconnectCall
  \/ DisconnectResolve
  \/ ConnectAuthZ("injb", GranterDirection)
  \/ ResetAuthZ

SpecSession == InitSession /\ [][NextSession]_vars

\* The wallet store on its own, every connect flow included.
InitWallet ==
  /\ args = Undefined
  /\ activeMarketIds = <<"A">>
  /\ FreshSession \/ ConnectedSession
  /\ NoInvocation
  /\ NoTest
  /\ NoServices

NextWallet ==
  \/ \E method \in ConnectMethods :
       \E address \in AddressArgs(method) : ConnectCall(method, address)
  \/ ConnectResolve
  \/ GetAddressesResolve
  \/ ConfirmResolve
  \/ ConfirmKeplrResolve
  \/ WalletOpFails
  \/ OnConnect
  \/ Reset
  \/ DisconnectCall
  \/ DisconnectResolve

SpecWallet == InitWallet /\ [][NextWallet]_vars

\* The wallet store started from any of its states: connected or not, with
\* or without an authZ grant and an auto-sign key, any wallet kind selected
\* and any of the wallets detected as installed.
AuthZGranted ==
  [direction |-> GranterDirection,
   injectiveAddress |-> "injb",
   address |-> getEthereumAddress("injb"),
   defaultSubaccountId |-> getDefaultSubaccountId("injb")]

AutoSignEnabled ==
  [defined |-> TRUE, privateKey |-> "pk", injectiveAddress |-> "inja",
   expiration |-> 1]

SelectedWallets == {"metamask", "trust-wallet", "keplr", "ledger"}

WalletStates ==
  {[base EXCEPT !.wallet = wallet,
                !.authZ = authZ,
                !.autoSign = autoSign,
                !.metamaskInstalled = installed[1],
                !.trustWalletInstalled = installed[2],
                !.okxWalletInstalled = installed[3],
                !.phantomInstalled = installed[4],
                !.bitGetInstalled = installed[5]] :
     base \in {initialStateFactory, ConnectedStore},
     wallet \in SelectedWallets,
     authZ \in {NoAuthZ, AuthZGranted},
     autoSign \in {NoAutoSign, AutoSignEnabled},
     installed \in [1..5 -> BOOLEAN]}

InitAnyWallet ==
  /\ walletStore \in WalletStates
  /\ walletOp = NoWalletOp
  /\ isUserConnected = sharedIsUserConnected(walletStore)
  /\ subaccountId = IF walletStore.authZ.defaultSubaccountId # ""
                    THEN walletStore.authZ.defaultSubaccountId
                    ELSE walletStore.defaultSubaccountId
  /\ args = Undefined
  /\ subaccountPositions = Array(<<>>)
  /\ activeMarketIds = <<"A">>
  /\ NoStreams
  /\ NoInvocation
  /\ NoTest
  /\ NoServices

NextAnyWallet ==
  \/ ConnectCall("connectMetamask", "")
  \/ ConnectResolve
  \/ GetAddressesResolve
  \/ ConfirmResolve
  \/ WalletOpFails
  \/ Reset
  \/ DisconnectCall
  \/ DisconnectResolve

SpecAnyWallet == InitAnyWallet /\ [][NextAnyWallet]_vars

\* The two balance mappings applied to one response of the indexer.
InitBalances ==
  /\ isUserConnected = TRUE
  /\ subaccountId = "sub1"
  /\ args = Undefined
  /\ subaccountPositions = Array(<<>>)
  /\ activeMarketIds = <<"A">>
  /\ NoStreams
  /\ NoInvocation
  /\ walletStore = ConnectedStore
  /\ walletOp = NoWalletOp
  /\ NoTest
  /\ grpcBalances \in SeqsUpTo(SubaccountBalance, MaxBalances)
  /\ uiSubaccount = NoSubaccount
  /\ uiBalances = NoUiBalances
  /\ NoFavorites
  /\ walletValidate = NoWalletValidate

NextBalances ==
  \/ \E subaccount \in {"sub1", "sub2"} : FetchSubaccountCall(subaccount)
  \/ FetchSubaccountResolve
  \/ FetchSubaccountFails
  \/ GrpcSubaccountBalanceToUiSubaccountBalance

SpecBalances == InitBalances /\ [][NextBalances]_vars

\* validate() of the wallet store from any store state, while reset() and
\* the authZ actions can run during its awaits.
NextWalletValidate ==
  \/ WalletValidateCall
  \/ WalletValidateResolve
  \/ WalletValidateFails
  \/ Reset
  \/ ConnectAuthZ("injb", GranterDirection)
  \/ ResetAuthZ

SpecWalletValidate == InitAnyWallet /\ [][NextWalletValidate]_vars

\* The app store's favorites, from the empty list of its initial state.
InitFavorites ==
  /\ isUserConnected = FALSE
  /\ subaccountId = ""
  /\ args = Undefined
  /\ subaccountPositions = Array(<<>>)
  /\ activeMarketIds = <<"A">>
  /\ NoStreams
  /\ NoInvocation
  /\ WalletIdle
  /\ NoTest
  /\ NoServices

NextFavorites ==
  \E marketId \in FavoriteCandidates : ToggleFavoriteMarket(marketId)

SpecFavorites == InitFavorites /\ [][NextFavorites]_vars

InitVerify ==
  /\ isUserConnected = FALSE
  /\ subaccountId = ""
  /\ args = Undefined
  /\ subaccountPositions = Array(<<>>)
  /\ activeMarketIds = <<"A", "B">>
  /\ NoStreams
  /\ NoInvocation
  /\ WalletIdle
  /\ testExisting \in Snapshots(MaxLen)
  /\ testLatest \in Snapshots(MaxLen)
  /\ testValid = "unset"
  /\ NoServices

NextVerify == VerifyData

SpecVerify == InitVerify /\ [][NextVerify]_vars

-----------------------------------------------------------------------------
(* Properties *)

\* Every element of C has an element of F with the same (marketId, updatedAt).
Matches(C, F) ==
  \A i \in 1..Len(C) : \E j \in 1..Len(F) :
    /\ C[i].marketId = F[j].marketId
    /\ C[i].updatedAt = F[j].updatedAt

NoDuplicates(list) ==
  \A i, j \in 1..Len(list) : list[i] = list[j] => i = j

Member(list, m) == m \in {list[i] : i \in 1..Len(list)}

\* The list with every occurrence of m taken out, the rest in order.
Without(list, m) ==
  LET other(x) == x # m IN SelectSeq(list, other)

Diverged(p) ==
  /\ compared[p].done
  /\ ~Matches(compared[p].existing, compared[p].latest)

Ops(p) == [i \in 1..Len(effects[p]) |-> effects[p][i].op]

LiveOfKind(kind) ==
  {h \in 1..Len(streams) : streams[h].kind = kind /\ streams[h].live}

CancelledByMarketStreams == SpotMarketStreamType \cup SubaccountStreamType

\* C1: verifyData(C, F) is true exactly when every element of C has an
\* element of F with the same (marketId, updatedAt) pair; it is true for
\* C = [] whatever F is, and appending any further element to F never turns
\* a true result into false.
C1_VerifyDataIsKeyedInclusion ==
  testValid # "unset" =>
    /\ (testValid = "true") <=> Matches(testExisting, testLatest)
    /\ testExisting = <<>> => testValid = "true"
    /\ testValid = "true" =>
         \A extra \in Position : verifyData(testExisting, Append(testLatest, extra))

C1_Witness ==
  /\ testValid = "true"
  /\ testExisting = <<[marketId |-> "A", updatedAt |-> 100]>>
  /\ testLatest = <<[marketId |-> "B", updatedAt |-> 200],
                    [marketId |-> "A", updatedAt |-> 100]>>

\* C2: when validate() detected divergence against a fetched snapshot F and
\* went on to replace the cache, the snapshot written to the cache is F, the
\* one that was compared.
C2_CacheReplacedWithComparedSnapshot ==
  \A p \in Procs :
    (pc[p] = "done" /\ Diverged(p)) =>
      /\ subaccountPositions = Array(compared[p].latest)
      /\ \A i \in 1..Len(effects[p]) :
           effects[p][i].op = "replace" =>
             effects[p][i].data = Array(compared[p].latest)

\* C3: once a validate() that detected divergence has terminated, it has
\* performed exactly cancel, replace, open, in this order, and the opened
\* stream is scoped to the first element of marketIds.
C3_CancelReplaceOpenOnce ==
  \A p \in Procs :
    (pc[p] \in {"done", "failed"} /\ Diverged(p)) =>
      /\ Ops(p) = <<"cancel", "replace", "open">>
      /\ effects[p][3].marketId = firstMarketId(marketIdsLocal[p])

\* C4: a validate() called while the wallet is not connected or no subaccount
\* is set returns at once: no fetch is issued and the cached positions, the
\* registry and the streams are unchanged.
C4_SkippedWhenDisconnectedOrNoSubaccount ==
  [][\A p \in Procs :
       (ValidateCall(p) /\ (~isUserConnected \/ subaccountId = "")) =>
         /\ pc'[p] = "done"
         /\ fetchCount'[p] = 0
         /\ effects'[p] = <<>>
         /\ UNCHANGED <<subaccountPositions, registry, streams>>]_vars

C4_Witness ==
  \E p \in Procs :
    /\ pc[p] = "done"
    /\ fetchCount[p] = 0
    /\ isUserConnected /\ subaccountId = ""
    /\ subaccountPositions.items # <<>>
    /\ registry[PositionStreamType] # NoHandle

\* C5: a validate() whose non-empty fetched snapshot matches the cache returns
\* without changing the cache, the registry or the streams and without a
\* further fetch; a validate() has cancelled, replaced or opened anything only
\* if its comparison diverged.
C5_NoMutationWhenVerified ==
  /\ [](\A p \in Procs :
          /\ (compared[p].done /\ Matches(compared[p].existing, compared[p].latest)) =>
               (pc[p] = "done" /\ effects[p] = <<>> /\ fetchCount[p] = 1)
          /\ effects[p] # <<>> => Diverged(p))
  /\ [][\A p \in Procs :
          (/\ ValidateVerify(p)
           /\ compared'[p].done
           /\ Matches(compared'[p].existing, compared'[p].latest)) =>
            UNCHANGED <<subaccountPositions, registry, streams>>]_vars

C5_Witness ==
  \E p \in Procs :
    /\ pc[p] = "done"
    /\ compared[p].done
    /\ compared[p].existing = <<[marketId |-> "A", updatedAt |-> 100]>>
    /\ compared[p].latest = <<[marketId |-> "A", updatedAt |-> 100]>>
    /\ subaccountPositions = Array(compared[p].existing)
    /\ effects[p] = <<>>

\* C6: when the fetch whose result validate() verifies resolves to an empty
\* or missing sequence, validate() returns without comparing: the cached
\* positions, the registry and the streams are unchanged and no further fetch
\* is issued, whatever the cache holds.
C6_EmptyFetchChangesNothing ==
  [][\A p \in Procs :
       (/\ ValidateVerify(p)
        /\ (~latestPositions'[p].defined \/ latestPositions'[p].items = <<>>)) =>
         /\ pc'[p] = "done"
         /\ ~compared'[p].done
         /\ UNCHANGED <<subaccountPositions, registry, streams, effects, fetchCount>>]_vars

C6_Witness ==
  \E p \in Procs :
    /\ pc[p] = "done"
    /\ fetchCount[p] = 1
    /\ latestPositions[p] = Array(<<>>)
    /\ subaccountPositions.defined /\ subaccountPositions.items # <<>>
    /\ registry[PositionStreamType] # NoHandle
    /\ effects[p] = <<>>

\* C7 (as claimed): a validate() called with the wallet connected, a
\* subaccount set and an empty cache returns at once without a fetch.
C7_SkippedWhenCacheEmpty ==
  [][\A p \in Procs :
       (ValidateCall(p) /\ subaccountPositions = Array(<<>>)) =>
         (pc'[p] = "done" /\ fetchCount'[p] = 0)]_vars

\* C7 (amended): an empty cache does not skip validate(): called with the
\* wallet connected and a subaccount set it issues the fetch whatever the
\* cache holds; when the cache is empty at the comparison, verification
\* succeeds and validate() returns without any mutation or further fetch.
C7_EmptyCacheFetchedNotMutated ==
  /\ [][\A p \in Procs :
          (ValidateCall(p) /\ isUserConnected /\ subaccountId # "") =>
            (pc'[p] = "fetch1" /\ fetchCount'[p] = 1)]_vars
  /\ [](\A p \in Procs :
          (compared[p].done /\ compared[p].existing = <<>>) =>
            (pc[p] = "done" /\ effects[p] = <<>> /\ fetchCount[p] = 1))
  /\ [][\A p \in Procs :
          (ValidateVerify(p) /\ compared'[p].done /\ compared'[p].existing = <<>>) =>
            UNCHANGED <<subaccountPositions, registry, streams>>]_vars

C7_Witness ==
  \E p \in Procs :
    /\ pc[p] = "done"
    /\ compared[p].done
    /\ compared[p].existing = <<>>
    /\ subaccountPositions = Array(<<>>)
    /\ fetchCount[p] = 1
    /\ effects[p] = <<>>

\* C8: at most one started and not yet cancelled stream exists per stream kind.
C8_AtMostOneLivePerKind ==
  \A kind \in StreamKinds : Cardinality(LiveOfKind(kind)) <= 1

\* C9: a streamOrderbook while an orderbook handle h1 is registered registers
\* the new handle h2 in its place and leaves h1 as it was (live); handles
\* that are not in the registry are left as they are by cancelMarketStreams,
\* which cancels the registered h2.
C9_SetSupersedesWithoutCancel ==
  /\ [](\A kind \in StreamKinds :
          registry[kind] # NoHandle =>
            (streams[registry[kind]].kind = kind /\ streams[registry[kind]].live))
  /\ [][(StreamOrderbook /\ registry["Orderbook"] # NoHandle) =>
          /\ registry'["Orderbook"] = Len(streams')
          /\ registry'["Orderbook"] # registry["Orderbook"]
          /\ streams'[registry["Orderbook"]] = streams[registry["Orderbook"]]
          /\ streams'[registry["Orderbook"]].live]_vars
  /\ [][CancelMarketStreams =>
          /\ \A h \in 1..Len(streams) :
               (\A kind \in StreamKinds : registry[kind] # h) =>
                 streams'[h] = streams[h]
          /\ registry["Orderbook"] # NoHandle =>
               ~streams'[registry["Orderbook"]].live]_vars

C9_Witness ==
  \E h1, h2 \in 1..Len(streams) :
    /\ h1 < h2
    /\ streams[h1].kind = "Orderbook" /\ streams[h1].live
    /\ streams[h2].kind = "Orderbook" /\ ~streams[h2].live
    /\ registry["Orderbook"] = NoHandle

\* C10: cancelIfExists(kind) leaves nothing registered for kind, cancels the
\* handle that was registered for it, leaves every other kind's registration
\* and every other handle as they were, and applied a second time changes
\* nothing; so cancelMarketStreams cancels and removes the handles of its five
\* kinds, leaves the other kinds alone, and is a no-op when none of the five
\* is registered.
C10_CancelIfExistsIdempotent ==
  /\ [](\A kind \in StreamKinds :
          LET once == cancelIfExists(SM, kind)
          IN  /\ once.registry[kind] = NoHandle
              /\ registry[kind] # NoHandle => ~once.streams[registry[kind]].live
              /\ registry[kind] = NoHandle => once = SM
              /\ \A other \in StreamKinds \ {kind} :
                   once.registry[other] = registry[other]
              /\ Len(once.streams) = Len(streams)
              /\ \A h \in 1..Len(streams) :
                   h # registry[kind] => once.streams[h] = streams[h]
              /\ cancelIfExists(once, kind) = once)
  /\ [][CancelMarketStreams =>
          /\ \A kind \in CancelledByMarketStreams :
               /\ registry'[kind] = NoHandle
               /\ registry[kind] # NoHandle => ~streams'[registry[kind]].live
          /\ \A kind \in StreamKinds \ CancelledByMarketStreams :
               registry'[kind] = registry[kind]
          /\ Len(streams') = Len(streams)
          /\ \A h \in 1..Len(streams) :
               (\A kind \in CancelledByMarketStreams : registry[kind] # h) =>
                 streams'[h] = streams[h]
          /\ (\A kind \in CancelledByMarketStreams : registry[kind] = NoHandle) =>
               UNCHANGED <<registry, streams>>]_vars

C10_Witness ==
  /\ \A kind \in CancelledByMarketStreams : registry[kind] = NoHandle
  /\ \E h \in 1..Len(streams) :
       streams[h].kind \in SpotMarketStreamType /\ ~streams[h].live
  /\ registry[PositionStreamType] # NoHandle
  /\ streams[registry[PositionStreamType]].live

\* C11: cancelAllStreams() cancels every handle that is registered, of any
\* kind: after it, none of the handles the registry held is live, and no
\* live handle is left in the registry.
C11_CancelAllCancelsEveryRegistered ==
  [][CancelAllStreams =>
       /\ \A kind \in StreamKinds :
            registry[kind] # NoHandle => ~streams'[registry[kind]].live
       /\ \A kind \in StreamKinds :
            registry'[kind] # NoHandle => ~streams'[registry'[kind]].live]_vars

C11_Witness ==
  /\ \E h \in 1..Len(streams) :
       streams[h].kind = PositionStreamType /\ ~streams[h].live
  /\ \E h \in 1..Len(streams) :
       streams[h].kind \in SpotMarketStreamType /\ ~streams[h].live
  /\ \A kind \in StreamKinds : registry[kind] = NoHandle

\* C12: when a fetch awaited by validate() rejects, validate() rejects at
\* that point: it issues no further request and changes nothing, and a
\* rejected invocation never resumes (only a new call by the caller follows).
C12_FetchFailurePropagates ==
  /\ [][\A p \in Procs :
          FetchFails(p) =>
            /\ pc'[p] = "failed"
            /\ fetchCount'[p] = fetchCount[p]
            /\ requests'[p] = requests[p]
            /\ UNCHANGED <<subaccountPositions, registry, streams, effects>>]_vars
  /\ [][\A p \in Procs :
          pc[p] = "failed" =>
            \/ ValidateCall(p)
            \/ /\ pc'[p] = "failed"
               /\ fetchCount'[p] = fetchCount[p]
               /\ effects'[p] = effects[p]]_vars

C12_Witness ==
  \E p \in Procs :
    /\ pc[p] = "failed"
    /\ fetchCount[p] = 1
    /\ Len(requests[p]) = 1
    /\ subaccountPositions.defined
    /\ effects[p] = <<>>

\* C13: a fetchData() that resolves or rejects leaves the cached positions,
\* the wallet and account state, the market scope and the stream registry
\* unchanged; the request it issues carries the active subaccount and the
\* market scope (marketIds, or the active market ids when marketIds is
\* undefined) as they are when it is called.
C13_FetchDataLeavesLocalStateAlone ==
  /\ [][\A p \in Procs :
          (FetchDataResolve(p, FetchResults) \/ FetchFails(p)) =>
            UNCHANGED <<subaccountPositions, isUserConnected, subaccountId, args,
                        activeMarketIds, registry, streams, walletStore>>]_vars
  /\ [][\A p \in Procs :
          Len(requests'[p]) > Len(requests[p]) =>
            requests'[p][Len(requests'[p])] =
              [subaccountId |-> subaccountId,
               marketIds |-> IF args.defined THEN args.items
                             ELSE activeMarketIds]]_vars

C13_Witness ==
  \E p \in Procs :
    /\ pc[p] = "fetched1"
    /\ fetched[p].defined /\ fetched[p].items # <<>>
    /\ subaccountPositions # fetched[p]
    /\ ~args.defined
    /\ requests[p] = <<[subaccountId |-> "sub1", marketIds |-> activeMarketIds]>>

\* The rearrangements of a sequence.
Permute(seq) ==
  {[i \in 1..Len(seq) |-> seq[f[i]]] : f \in Permutations(1..Len(seq))}

\* C14: verifyData gives the same result for every rearrangement of the
\* cached sequence and every rearrangement of the fresh sequence.
C14_VerifyDataIgnoresOrder ==
  testValid # "unset" =>
    \A C \in Permute(testExisting), F \in Permute(testLatest) :
      verifyData(C, F) <=> (testValid = "true")

C14_Witness ==
  /\ testValid = "true"
  /\ testExisting = <<[marketId |-> "A", updatedAt |-> 100],
                      [marketId |-> "B", updatedAt |-> 200]>>
  /\ testLatest = <<[marketId |-> "B", updatedAt |-> 200],
                    [marketId |-> "A", updatedAt |-> 100]>>

\* C15: nothing excludes a second validate() while another is suspended at
\* a fetch: whenever one invocation is in flight, a call of the other is
\* possible.
C15_NoMutualExclusion ==
  \A p, q \in RaceProcs :
    (/\ p # q
     /\ pc[p] \in InFlight
     /\ pc[q] \in {"idle", "done", "failed"}
     /\ Len(streams) < MaxHandles) =>
      ENABLED ValidateCall(q)

\* Both invocations detected divergence and both ran cancel, replace, open;
\* they overlapped: the stream the first one opened was superseded without
\* being cancelled, so two position streams are live.
C15_Witness ==
  /\ \A p \in RaceProcs :
       /\ pc[p] = "done"
       /\ Diverged(p)
       /\ Ops(p) = <<"cancel", "replace", "open">>
  /\ Cardinality(LiveOfKind(PositionStreamType)) = 2

\* C17: an invocation whose fetch hangs stays suspended for ever and changes
\* nothing from then on; every other invocation in flight still terminates
\* (returns or rejects) unless its own fetch hangs.
C17_HungFetchBlocksOnlyItself ==
  /\ [][\A p \in RaceProcs :
          pc[p] = "hung" =>
            /\ pc'[p] = "hung"
            /\ effects'[p] = effects[p]
            /\ fetchCount'[p] = fetchCount[p]]_vars
  /\ \A q \in RaceProcs :
       (pc[q] \in InFlight) ~> (pc[q] \in {"done", "failed", "hung"})

C17_Witness ==
  \E p, q \in RaceProcs :
    /\ pc[p] = "hung"
    /\ effects[p] = <<>>
    /\ pc[q] = "done"
    /\ Ops(q) = <<"cancel", "replace", "open">>

\* C18: however validate() terminates, either it never cancelled the
\* positions stream, or it has replaced the cache and opened a new stream,
\* which is registered and live.
C18_StreamNeverLeftCancelled ==
  \A p \in Procs :
    pc[p] \in {"done", "failed"} =>
      \/ \A i \in 1..Len(effects[p]) : effects[p][i].op # "cancel"
      \/ /\ \E i \in 1..Len(effects[p]) : effects[p][i].op = "replace"
         /\ \E i \in 1..Len(effects[p]) : effects[p][i].op = "open"
         /\ registry[PositionStreamType] # NoHandle
         /\ streams[registry[PositionStreamType]].live

\* C16: once disconnect() has completed, no stream is registered or live.
C16_DisconnectCancelsEveryStream ==
  [][DisconnectResolve =>
       /\ \A kind \in StreamKinds : registry'[kind] = NoHandle
       /\ \A h \in 1..Len(streams') : ~streams'[h].live]_vars

\* C19: validate() writes the cache and opens the stream only while the
\* wallet is connected and a subaccount is set, and every fetch it made was
\* for the subaccount that is still the active one.
C19_ResyncOnlyForStartingSubaccount ==
  [][\A p \in Procs :
       ValidateResync(p) =>
         /\ isUserConnected
         /\ subaccountId # ""
         /\ \A i \in 1..Len(requests[p]) :
              requests[p][i].subaccountId = subaccountId]_vars

\* C20: whenever walletConnectStatus is connected, the wallet store holds a
\* non-empty address, address confirmation, injective address and address
\* list.
C20_ConnectedStatusImpliesWalletConnected ==
  walletStore.walletConnectStatus = "connected" =>
    /\ Len(walletStore.addresses) > 0
    /\ walletStore.address # ""
    /\ walletStore.addressConfirmation # ""
    /\ walletStore.injectiveAddress # ""

\* C21: reset(), and with it a completed disconnect(), leaves address,
\* addresses, injectiveAddress, defaultSubaccountId, addressConfirmation and
\* authZ at their initial empty values and autoSign undefined, so neither
\* getter reports a connected wallet; the selected wallet and the installed
\* flags are as before.
C21_ResetClearsIdentityKeepsWallet ==
  [][(Reset \/ DisconnectResolve) =>
       /\ walletStore'.address = ""
       /\ walletStore'.addresses = <<>>
       /\ walletStore'.injectiveAddress = ""
       /\ walletStore'.defaultSubaccountId = ""
       /\ walletStore'.addressConfirmation = ""
       /\ walletStore'.authZ =
            [address |-> "", direction |-> GranteeDirection,
             injectiveAddress |-> "", defaultSubaccountId |-> ""]
       /\ ~walletStore'.autoSign.defined
       /\ ~isUserWalletConnected(walletStore')
       /\ ~isAuthzWalletConnected(walletStore')
       /\ walletStore'.wallet = walletStore.wallet
       /\ walletStore'.metamaskInstalled = walletStore.metamaskInstalled
       /\ walletStore'.trustWalletInstalled = walletStore.trustWalletInstalled
       /\ walletStore'.okxWalletInstalled = walletStore.okxWalletInstalled
       /\ walletStore'.phantomInstalled = walletStore.phantomInstalled
       /\ walletStore'.bitGetInstalled = walletStore.bitGetInstalled]_vars

\* A store that was connected has been reset: the status still says
\* connected, the identity is gone, a non-default wallet and an installed
\* flag are kept.
C21_Witness ==
  /\ walletStore.walletConnectStatus = "connected"
  /\ walletStore.address = ""
  /\ walletStore.authZ.injectiveAddress = ""
  /\ ~walletStore.autoSign.defined
  /\ walletStore.wallet = "keplr"
  /\ walletStore.phantomInstalled
  /\ walletOp = NoWalletOp

\* C22: for every balance the indexer returned, fetchSubaccount reports the
\* deposit's totalBalance as totalBalance and its availableBalance as
\* availableBalance ("0" for both without a deposit), the same values as
\* grpcSubaccountBalanceToUiSubaccountBalance.
C22_BalanceMappingsAgree ==
  uiSubaccount.pc = "done" =>
    /\ Len(uiSubaccount.balances) = Len(grpcBalances)
    /\ \A i \in 1..Len(grpcBalances) :
         /\ uiSubaccount.balances[i].totalBalance =
              IF grpcBalances[i].deposit.defined
              THEN grpcBalances[i].deposit.totalBalance ELSE "0"
         /\ uiSubaccount.balances[i].availableBalance =
              IF grpcBalances[i].deposit.defined
              THEN grpcBalances[i].deposit.availableBalance ELSE "0"
         /\ uiBalances.defined =>
              /\ uiSubaccount.balances[i].totalBalance =
                   uiBalances.balances[i].totalBalance
              /\ uiSubaccount.balances[i].availableBalance =
                   uiBalances.balances[i].availableBalance

\* C23 as stated: a validate() called with an Ethereum wallet selected, the
\* authZ wallet connected and autoSign unset ends rejected with a
\* GeneralException; one called with autoSign set runs no validator and
\* does not throw.
C23_AuthzFromEthWalletAlwaysRejected ==
  /\ (walletValidate.authzFromEthWallet
        /\ walletValidate.pc \in {"resolved", "rejected"}) =>
       /\ walletValidate.pc = "rejected"
       /\ walletValidate.error = "GeneralException"
  /\ walletValidate.isAutoSignEnabled =>
       /\ walletValidate.validations = <<>>
       /\ walletValidate.pc = "resolved"

\* C23 (amended): whenever validate() gets past its Metamask and TrustWallet
\* validations (at once for any other wallet, after the awaited validator
\* resolved otherwise) and the wallet is then an Ethereum wallet with the
\* authZ wallet connected and autoSign was unset at the call, it rejects
\* with a GeneralException; a validator that rejects makes validate() reject
\* with the validator's error; with autoSign set at the call validate() runs
\* no validator and returns.
C23_AuthzRejectedWhenCheckIsReached ==
  [][/\ ((WalletValidateCall \/ WalletValidateResolve)
           /\ walletValidate.pc # "validateCosmosWallet"
           /\ walletValidate'.pc \notin {"validateMetamask", "validateTrustWallet"}
           /\ isEthWallet(walletStore.wallet)
           /\ walletStore.authZ.address # ""
           /\ walletStore.authZ.injectiveAddress # ""
           /\ isUserWalletConnected(walletStore)
           /\ ~walletValidate'.isAutoSignEnabled) =>
          /\ walletValidate'.pc = "rejected"
          /\ walletValidate'.error = "GeneralException"
     /\ WalletValidateFails =>
          /\ walletValidate'.pc = "rejected"
          /\ walletValidate'.error \in ValidatorErrors
          /\ walletValidate'.validations = walletValidate.validations
     /\ (WalletValidateCall /\ walletStore.autoSign.defined) =>
          /\ walletValidate'.pc = "resolved"
          /\ walletValidate'.validations = <<>>
          /\ walletValidate'.error = "none"]_vars

\* validateMetamask resolved and the AuthZ check then rejected the call.
C23_Witness ==
  /\ walletValidate.pc = "rejected"
  /\ walletValidate.error = "GeneralException"
  /\ walletValidate.validations = <<"validateMetamask">>
  /\ walletStore.wallet = "metamask"
  /\ isAuthzWalletConnected(walletStore)

\* C24: every toggleFavoriteMarket(m) leaves the favorites without
\* duplicates, makes m a member exactly when it was not one, puts a newly
\* added m first, keeps the other markets in their order, and, when it
\* follows another toggle of m, gives m the membership it had before that one.
C24_ToggleKeepsFavoritesASet ==
  [][\A m \in FavoriteCandidates :
       ToggleFavoriteMarket(m) =>
         /\ NoDuplicates(favoriteMarkets')
         /\ Member(favoriteMarkets', m) <=> ~Member(favoriteMarkets, m)
         /\ ~Member(favoriteMarkets, m) => favoriteMarkets'[1] = m
         /\ Without(favoriteMarkets', m) = Without(favoriteMarkets, m)
         /\ lastToggle.marketId = m =>
              (Member(favoriteMarkets', m) <=> lastToggle.wasMember)]_vars

\* B was removed from between C and A, which keep their order.
C24_Witness ==
  /\ favoriteMarkets = <<"C", "A">>
  /\ lastToggle = [marketId |-> "B", wasMember |-> TRUE]

====
